---- MODULE Spec2Model ----
(***************************************************************************)
(* Model of the table-driven CRC engine hash::Crc<T> (crc.h) and of the    *)
(* way main.cpp drives it.                                                 *)
(*                                                                         *)
(* Representation.  An unsigned integer of the program (uint8_t, uint16_t, *)
(* uint32_t, uint64_t) is the set of the positions of its one bits: bit i  *)
(* of the value is set iff i is in the set.  In this representation        *)
(*     a ^ b  is the symmetric difference,   a | b  is the union,          *)
(*     a << k drops the bits shifted out of the type's width,              *)
(*     static_cast<T> keeps the bits below the width of T,                 *)
(* so every width (16, 32, 64) is modelled exactly, without overflow.      *)
(* Input buffers are sequences of byte values 0..255.                      *)
(***************************************************************************)
EXTENDS Integers, Sequences, FiniteSets, TLC

VARIABLES
  width,     \* sizeof(T) * 8 of the instantiated Crc<T>: 16, 32 or 64
  options,   \* the OptionsCrc the engine was constructed from (uint64_t fields)
  crc_,      \* Crc::crc_, the running register
  chunks_,   \* Crc::chunks_, the processing method Consume(data, size) uses
  fed,       \* history: the bytes consumed since construction or the last reset()
  calls,     \* history: the number of Consume calls since then
  last,      \* history: the operation that ran last
  discarded, \* history: reset() ran last, on its own or at the end of Optimize(),
             \* and the register it overwrote differed from the one it stored
  ret,       \* history: <<v>> if crc() ran last and returned v, else << >>
  rest       \* history: the number of bytes the last Consume call passed to
             \* Consume_byte_by_byte; 0 when another operation ran last

vars == <<width, options, crc_, chunks_, fed, calls, last, discarded, ret, rest>>

(***************************************************************************)
(* Unsigned integers as sets of bit positions.                             *)
(***************************************************************************)
Xor(a, b) == {i \in (a \ b) \cup (b \ a) : TRUE}

\* value << k in a type of w bits
Shl(a, k, w) == {i + k : i \in a \cap (0..(w - k - 1))}

\* value >> k
Shr(a, k) == {i - k : i \in a \ (0..(k - 1))}

\* static_cast to an unsigned type of w bits
Cast(a, w) == {i \in a : i < w}

\* (value >> shift) & 0xFF, as an index
ByteAt(a, shift) ==
  (IF shift \in a THEN 1 ELSE 0) + (IF shift + 1 \in a THEN 2 ELSE 0) +
  (IF shift + 2 \in a THEN 4 ELSE 0) + (IF shift + 3 \in a THEN 8 ELSE 0) +
  (IF shift + 4 \in a THEN 16 ELSE 0) + (IF shift + 5 \in a THEN 32 ELSE 0) +
  (IF shift + 6 \in a THEN 64 ELSE 0) + (IF shift + 7 \in a THEN 128 ELSE 0)

\* the bits of the byte values 0..255
Bits8 == [v \in 0..255 |-> {i \in 0..7 : (v \div (2 ^ i)) % 2 = 1}]

\* a value written as its bytes, most significant first (0xCBF43926 is
\* Hex(<<203, 244, 57, 38>>))
Hex(bytes) ==
  UNION {{i + 8 * (Len(bytes) - k) : i \in Bits8[bytes[k]]} : k \in 1..Len(bytes)}

(***************************************************************************)
(* Crc<T>::ReverseBits.  The loop looks at the low `bits` bits of value    *)
(* only and sets bit (bits - 1) - i of the result for every set bit i.     *)
(***************************************************************************)
ReverseBits(value, bits) == {(bits - 1) - i : i \in {j \in value : j < bits}}

(***************************************************************************)
(* SwapEndianess: the builtin byte swap of a 16, 32 or 64 bit value.       *)
(***************************************************************************)
SwapEndianess(val, size) ==
  {8 * ((size \div 8) - 1 - (i \div 8)) + (i % 8) : i \in val}

(***************************************************************************)
(* Crc<T>::CalculateTableValue.  `this` carries the members the method     *)
(* reads: width (sizeof(T) * 8), polynomial_ and reverse_data_.            *)
(***************************************************************************)
RECURSIVE DivideByte(_, _, _)
DivideByte(this, result, i) ==
  IF i = 8 THEN result
  ELSE DivideByte(this,
                  IF (this.width - 1) \in result    \* result & high_bit
                  THEN Xor(Shl(result, 1, this.width), this.polynomial_)
                  ELSE Shl(result, 1, this.width),
                  i + 1)

\* CalculateTableValue as it would be with the index not reflected
CalculateTableValue_index_unreflected(this, value) ==
  LET result == DivideByte(this, Shl(value, this.width - 8, this.width), 0)
  IN IF this.reverse_data_ THEN ReverseBits(result, this.width) ELSE result

CalculateTableValue(this, value) ==
  LET start  == IF this.reverse_data_ THEN ReverseBits(value, 8) ELSE value
      result == DivideByte(this, Shl(start, this.width - 8, this.width), 0)
  IN IF this.reverse_data_ THEN ReverseBits(result, this.width) ELSE result

(***************************************************************************)
(* Crc<T>::GenerateLookupTable: row 0 from CalculateTableValue, rows 1..31 *)
(* from the row before, by the recurrence of the direction in use.         *)
(***************************************************************************)
\* a row as the constructor stores it: an array of 256 computed entries
\* (the function written out, so that a lookup is a lookup)
Stored(row) == row @@ << >>

NextRow(this, row0, prev) ==
  IF this.reverse_data_
  THEN Stored([i \in 0..255 |-> LET p == prev[i] IN Xor(Shr(p, 8), row0[ByteAt(p, 0)])])
  ELSE Stored([i \in 0..255 |->
                 LET p == prev[i]
                 IN Xor(Shl(p, 8, this.width), row0[ByteAt(p, this.width - 8)])])

RECURSIVE TableRows(_, _, _)
TableRows(this, rows, j) ==
  IF j = 32 THEN rows
  ELSE TableRows(this, Append(rows, NextRow(this, rows[1], rows[j])), j + 1)

GenerateLookupTable(this) ==
  LET rows == TableRows(this, <<Stored([i \in 0..255 |-> CalculateTableValue(this, Bits8[i])])>>, 1)
  IN [j \in 0..31 |-> rows[j + 1]]

(***************************************************************************)
(* Sequencing: F applied to the value of x, x being computed first (the    *)
(* statements of the program run one after the other).                     *)
(***************************************************************************)
Then(x, F(_)) == CHOOSE r \in {F(v) : v \in {x}} : TRUE

(***************************************************************************)
(* Crc<T>::Consume_byte_by_byte.  In the kernels `this` carries width,     *)
(* reverse_data_ and lookup_table_.  std::accumulate applies the lambda to *)
(* the bytes first..last in order; Accumulate does so too, taking the      *)
(* first half of the range and then the second (which keeps the depth of   *)
(* the evaluation logarithmic in the length).                              *)
(***************************************************************************)
ByteLambda(this, crc, value) ==
  IF this.reverse_data_
  THEN Xor(Shr(crc, 8), this.lookup_table_[0][ByteAt(Xor(crc, Bits8[value]), 0)])
  ELSE Xor(Shl(crc, 8, this.width),
           this.lookup_table_[0][ByteAt(Xor(Shr(crc, this.width - 8), Bits8[value]), 0)])

RECURSIVE Accumulate(_, _, _, _, _)
Accumulate(this, crc, data, first, lst) ==
  IF first > lst THEN crc
  ELSE IF first = lst THEN ByteLambda(this, crc, data[first])
  ELSE LET mid == (first + lst) \div 2
       IN Then(Accumulate(this, crc, data, first, mid),
               LAMBDA c : Accumulate(this, c, data, mid + 1, lst))

\* Consume_byte_by_byte as it would be if it also applied xor_output_
Consume_byte_by_byte_finishing(this, crc, data, from) ==
  Xor(Accumulate(this, crc, data, from + 1, Len(data)), this.xor_output_)

\* Consume_byte_by_byte as it would be if std::accumulate began one byte late
Consume_byte_by_byte_late(this, crc, data, from) ==
  Accumulate(this, crc, data, from + 2, Len(data))

\* the bytes data[from + 1 .. Len(data)] folded into crc
Consume_byte_by_byte(this, crc, data, from) ==
  Accumulate(this, crc, data, from + 1, Len(data))

(***************************************************************************)
(* The 32 bit word *++casted_data_32 read at byte offset `at` of the       *)
(* buffer.  On a little-endian host the first byte is the low byte of the  *)
(* word, on a big-endian host it is the high byte.  this.host is the byte  *)
(* order of the machine the object lives on.                               *)
(***************************************************************************)
Word(this, data, at) ==
  IF this.host = "big"
  THEN UNION {{i + 8 * (3 - k) : i \in Bits8[data[at + 1 + k]]} : k \in 0..3}
  ELSE UNION {{i + 8 * k : i \in Bits8[data[at + 1 + k]]} : k \in 0..3}

\* the four lookups as they would be with the rows in the opposite order
Lookup4_rows_swapped(this, row, word) ==
  Xor(Xor(this.lookup_table_[row + 3][ByteAt(word, 24)],
          this.lookup_table_[row + 2][ByteAt(word, 16)]),
      Xor(this.lookup_table_[row + 1][ByteAt(word, 8)],
          this.lookup_table_[row][ByteAt(word, 0)]))

\* lookup_table_[row][(word >> 24) & 0xFF] ^ lookup_table_[row + 1][(word >> 16) & 0xFF] ^
\* lookup_table_[row + 2][(word >> 8) & 0xFF] ^ lookup_table_[row + 3][word & 0xFF]
Lookup4(this, row, word) ==
  Xor(Xor(this.lookup_table_[row][ByteAt(word, 24)],
          this.lookup_table_[row + 1][ByteAt(word, 16)]),
      Xor(this.lookup_table_[row + 2][ByteAt(word, 8)],
          this.lookup_table_[row + 3][ByteAt(word, 0)]))

\* static_cast<uint32_t>(crc) of a register or of its byte swap
Low32(crc) == Cast(crc, 32)

\* static_cast<uint32_t>(static_cast<uint64_t>(crc) >> 32)
High32(crc) == Cast(Shr(crc, 32), 32)

\* the register absorbed as it is, the byte swap forgotten
Absorbed_unswapped(this, crc) == crc

\* the register as the word loops absorb it: as it is when reverse_data_,
\* byte-swapped at the width of T otherwise
Absorbed(this, crc) ==
  IF this.reverse_data_ THEN crc ELSE SwapEndianess(crc, this.width)

(***************************************************************************)
(* The bodies of the inner for loops of the four word kernels: one step    *)
(* reads 1, 2, 4 or 8 words at byte offset `at` and replaces the register. *)
(***************************************************************************)
Step_1x32b(this, crc, data, at) ==
  LET word_1 == Xor(Word(this, data, at), Low32(Absorbed(this, crc)))
  IN Lookup4(this, 0, word_1)

Step_2x32b(this, crc, data, at) ==
  LET swapped == Absorbed(this, crc)
      word_1 == Xor(Word(this, data, at), Low32(swapped))
      word_2 == Xor(Word(this, data, at + 4), High32(swapped))
  IN Xor(Lookup4(this, 0, word_2), Lookup4(this, 4, word_1))

Step_4x32b(this, crc, data, at) ==
  LET swapped == Absorbed(this, crc)
      word_1 == Xor(Word(this, data, at), Low32(swapped))
      word_2 == Xor(Word(this, data, at + 4), High32(swapped))
      word_3 == Word(this, data, at + 8)
      word_4 == Word(this, data, at + 12)
  IN Xor(Xor(Lookup4(this, 0, word_4), Lookup4(this, 4, word_3)),
         Xor(Lookup4(this, 8, word_2), Lookup4(this, 12, word_1)))

Step_8x32b(this, crc, data, at) ==
  LET swapped == Absorbed(this, crc)
      word_1 == Xor(Word(this, data, at), Low32(swapped))
      word_2 == Xor(Word(this, data, at + 4), High32(swapped))
      word_3 == Word(this, data, at + 8)
      word_4 == Word(this, data, at + 12)
      word_5 == Word(this, data, at + 16)
      word_6 == Word(this, data, at + 20)
      word_7 == Word(this, data, at + 24)
      word_8 == Word(this, data, at + 28)
  IN Xor(Xor(Xor(Lookup4(this, 0, word_8), Lookup4(this, 4, word_7)),
             Xor(Lookup4(this, 8, word_6), Lookup4(this, 12, word_5))),
         Xor(Xor(Lookup4(this, 16, word_4), Lookup4(this, 20, word_3)),
             Xor(Lookup4(this, 24, word_2), Lookup4(this, 28, word_1))))

(***************************************************************************)
(* The processing methods (enum CrcChunks) and the shape of their loops:   *)
(* every word kernel takes bytes_at_once bytes per turn of its while loop, *)
(* in `unroll` steps of 1, 2, 4 or 8 words.                                *)
(***************************************************************************)
CrcChunks ==
  {"BYTE_BY_BYTE", "CHUNKS_1x32b", "CHUNKS_2x32b", "CHUNKS_4x32b", "CHUNKS_8x32b"}

bytes_at_once == 64

unroll(chunks) ==
  CASE chunks = "CHUNKS_1x32b" -> 16
    [] chunks = "CHUNKS_2x32b" -> 8
    [] chunks = "CHUNKS_4x32b" -> 4
    [] chunks = "CHUNKS_8x32b" -> 2

Step(this, chunks, crc, data, at) ==
  CASE chunks = "CHUNKS_1x32b" -> Step_1x32b(this, crc, data, at)
    [] chunks = "CHUNKS_2x32b" -> Step_2x32b(this, crc, data, at)
    [] chunks = "CHUNKS_4x32b" -> Step_4x32b(this, crc, data, at)
    [] chunks = "CHUNKS_8x32b" -> Step_8x32b(this, crc, data, at)

\* the steps first..lst of a word kernel, in order (step s reads at byte
\* offset s * bytes_at_once / unroll); halved like Accumulate
RECURSIVE Steps(_, _, _, _, _, _)
Steps(this, chunks, crc, data, first, lst) ==
  IF first > lst THEN crc
  ELSE IF first = lst
       THEN Step(this, chunks, crc, data, first * (bytes_at_once \div unroll(chunks)))
  ELSE LET mid == (first + lst) \div 2
       IN Then(Steps(this, chunks, crc, data, first, mid),
               LAMBDA c : Steps(this, chunks, c, data, mid + 1, lst))

\* bytes_left as it would be if a turn of the while loop took half of
\* bytes_at_once from it
bytes_left_half(size) == size - (size \div bytes_at_once) * (bytes_at_once \div 2)

\* bytes_left when the while loop of a word kernel ends: every turn took
\* bytes_at_once from it as long as it was at least bytes_at_once
bytes_left(size) == size - (size \div bytes_at_once) * bytes_at_once

\* a word kernel as it would be without its last statement, the rest of
\* the buffer left out
WordKernel_without_rest(this, chunks, crc, data) ==
  Steps(this, chunks, crc, data, 0, (Len(data) \div bytes_at_once) * unroll(chunks) - 1)

\* while (bytes_left >= bytes_at_once) { for (i < unroll) step; bytes_left -= bytes_at_once; }
\* and then "Consume last bytes if any": the rest goes to the byte kernel
WordKernel(this, chunks, crc, data) ==
  LET turns == Len(data) \div bytes_at_once
  IN Then(Steps(this, chunks, crc, data, 0, turns * unroll(chunks) - 1),
          LAMBDA c : Consume_byte_by_byte(this, c, data,
                                          Len(data) - bytes_left(Len(data))))

Consume_1x32b(this, crc, data) == WordKernel(this, "CHUNKS_1x32b", crc, data)

Consume_2x32b(this, crc, data) == WordKernel(this, "CHUNKS_2x32b", crc, data)

Consume_4x32b(this, crc, data) == WordKernel(this, "CHUNKS_4x32b", crc, data)

Consume_8x32b(this, crc, data) == WordKernel(this, "CHUNKS_8x32b", crc, data)

(***************************************************************************)
(* Crc<T>::Consume(data, size, chunks): the register the call leaves.      *)
(***************************************************************************)
Consume(this, crc, data, chunks) ==
  CASE chunks = "CHUNKS_8x32b" -> Consume_8x32b(this, crc, data)
    [] chunks = "CHUNKS_4x32b" -> Consume_4x32b(this, crc, data)
    [] chunks = "CHUNKS_2x32b" -> Consume_2x32b(this, crc, data)
    [] chunks = "CHUNKS_1x32b" -> Consume_1x32b(this, crc, data)
    [] chunks = "BYTE_BY_BYTE" -> Consume_byte_by_byte(this, crc, data, 0)

\* the size a Consume call with the method chunks passes to
\* Consume_byte_by_byte: all of it, or what the word loop left
Rest(chunks, size) ==
  IF chunks = "BYTE_BY_BYTE" THEN size ELSE bytes_left(size)

\* the number of 32 bit words a step of the method reads
words(chunks) ==
  CASE chunks = "CHUNKS_1x32b" -> 1
    [] chunks = "CHUNKS_2x32b" -> 2
    [] chunks = "CHUNKS_4x32b" -> 4
    [] chunks = "CHUNKS_8x32b" -> 8

(***************************************************************************)
(* Crc<T>::crc and Crc<T>::reset, as the values they compute.              *)
(***************************************************************************)
\* crc() as it would be if reverse_out_ alone decided the reflection
Crc_crc_by_reverse_out(this, crc) ==
  IF this.reverse_out_
  THEN Xor(ReverseBits(crc, this.width), this.xor_output_)
  ELSE Xor(crc, this.xor_output_)

Crc_crc(this, crc) ==
  IF this.reverse_out_ # this.reverse_data_
  THEN Xor(ReverseBits(crc, this.width), this.xor_output_)
  ELSE Xor(crc, this.xor_output_)

\* reset() as it would be if it stored initial_crc_ without reflecting it
Crc_reset_unreflected(this) == this.initial_crc_

Crc_reset(this) ==
  IF this.reverse_data_ THEN ReverseBits(this.initial_crc_, this.width)
  ELSE this.initial_crc_

(***************************************************************************)
(* OptionsCrc and its five presets.                                        *)
(***************************************************************************)
OptionsCrc(polynomial, initial_crc, xor_output, reverse_data, reverse_out, chunks) ==
  [polynomial |-> polynomial, initial_crc |-> initial_crc, xor_output |-> xor_output,
   reverse_data |-> reverse_data, reverse_out |-> reverse_out, chunks |-> chunks]

Crc16 == OptionsCrc(Hex(<<128, 5>>), {}, {}, TRUE, TRUE, "CHUNKS_4x32b")

Crc16_CCITT == OptionsCrc(Hex(<<16, 33>>), 0..15, {}, FALSE, FALSE, "CHUNKS_4x32b")

Crc32 == OptionsCrc(Hex(<<4, 193, 29, 183>>), 0..31, 0..31, TRUE, TRUE, "CHUNKS_4x32b")

Crc64 ==
  OptionsCrc(Hex(<<66, 240, 225, 235, 169, 234, 54, 147>>), 0..63, 0..63, TRUE, TRUE,
             "CHUNKS_4x32b")

Crc64_ISO == OptionsCrc(Hex(<<27>>), {}, {}, TRUE, TRUE, "CHUNKS_4x32b")

(***************************************************************************)
(* The engines the model constructs: Crc<T>(options) for T of 16, 32 and   *)
(* 64 bits.  The first five are the engines of main.cpp (NewCrc16(),       *)
(* NewCrc16(Crc16_CCITT()), NewCrc32(), NewCrc64(), NewCrc64(Crc64_ISO()));*)
(* the others are OptionsCrc values a caller can write: the presets with   *)
(* both reflections flipped, profiles that reflect only one side and have  *)
(* an initial value that is not its own reversal, and a 32 bit preset      *)
(* handed to NewCrc16.                                                     *)
(***************************************************************************)
Mirror(o) ==
  OptionsCrc(o.polynomial, o.initial_crc, o.xor_output, ~o.reverse_data,
             ~o.reverse_out, o.chunks)

OneSided16 ==
  OptionsCrc(Hex(<<128, 5>>), Hex(<<29, 15>>), Hex(<<0, 1>>), TRUE, FALSE, "CHUNKS_8x32b")

OneSided32 ==
  OptionsCrc(Hex(<<4, 193, 29, 183>>), Hex(<<18, 52, 86, 120>>), Hex(<<0, 0, 0, 255>>),
             FALSE, TRUE, "CHUNKS_2x32b")

Engine(w, o) == [width |-> w, options |-> o]

Engines ==
  {Engine(16, Crc16), Engine(16, Crc16_CCITT), Engine(32, Crc32), Engine(64, Crc64),
   Engine(64, Crc64_ISO),
   Engine(16, Mirror(Crc16)), Engine(64, Mirror(Crc64_ISO)),
   Engine(16, OneSided16), Engine(32, OneSided32),
   Engine(16, Crc32)}

(***************************************************************************)
(* Crc<T>::Crc: the const members, static_cast to T from the options, and  *)
(* the table GenerateLookupTable() fills.  The table is written by the     *)
(* constructor only and is determined by width, polynomial_ and            *)
(* reverse_data_; Tables holds it for every engine of the model.           *)
(***************************************************************************)
TableKey(w, o) ==
  [width |-> w, polynomial_ |-> Cast(o.polynomial, w), reverse_data_ |-> o.reverse_data]

Tables ==
  [k \in {TableKey(e.width, e.options) : e \in Engines} |-> GenerateLookupTable(k)]

Crc_Crc(w, o) ==
  [width |-> w,
   initial_crc_ |-> Cast(o.initial_crc, w),
   xor_output_ |-> Cast(o.xor_output, w),
   polynomial_ |-> Cast(o.polynomial, w),
   reverse_data_ |-> o.reverse_data,
   reverse_out_ |-> o.reverse_out,
   lookup_table_ |-> Tables[TableKey(w, o)],
   host |-> "little"]

\* the initializer of crc_ in the constructor
Crc_Crc_crc_(w, o) ==
  IF o.reverse_data THEN ReverseBits(Cast(o.initial_crc, w), w)
  ELSE Cast(o.initial_crc, w)

\* the engine of the current state
this == Crc_Crc(width, options)

(***************************************************************************)
(* Inputs.                                                                 *)
(***************************************************************************)
\* "123456789"
Check == <<49, 50, 51, 52, 53, 54, 55, 56, 57>>

\* "1234567890", the input of main
Ten == <<49, 50, 51, 52, 53, 54, 55, 56, 57, 48>>

\* n bytes, the i-th being (mult * i + 11) mod 256
RECURSIVE Pattern(_, _)
Pattern(mult, n) ==
  IF n = 0 THEN << >> ELSE Append(Pattern(mult, n - 1), (mult * n + 11) % 256)

\* one turn of the while loop of a word kernel and a rest of six bytes
Long == Pattern(37, bytes_at_once + 6)

Inputs == {<< >>, Check, Ten, Long}

\* the number of Consume calls between two resets
MaxCalls == 2

(***************************************************************************)
(* Optimize(buffer_size, repeats).  The buffer comes from malloc and is    *)
(* never written: its content is whatever the allocator hands out.  The    *)
(* five timing loops run every kernel `repeats` times over it, the timer   *)
(* decides best_type (any method can win), then reset() and chunks_ =      *)
(* best_type.                                                              *)
(***************************************************************************)
OptimizeArgs ==
  {[buffer_size |-> 0, repeats |-> 1], [buffer_size |-> 7, repeats |-> 2],
   [buffer_size |-> 10, repeats |-> 1]}

Uninitialized(buffer_size) == {Pattern(0, buffer_size), Pattern(101, buffer_size)}

\* for (size_t i = 0; i < repeats; ++i) Consume_...(buffer, buffer_size);
RECURSIVE Repeat(_, _, _, _, _)
Repeat(this_, chunks, crc, buffer, repeats) ==
  IF repeats = 0 THEN crc
  ELSE Then(Consume(this_, crc, buffer, chunks),
            LAMBDA c : Repeat(this_, chunks, c, buffer, repeats - 1))

TimingLoops(this_, crc, buffer, repeats) ==
  Then(Repeat(this_, "CHUNKS_1x32b", crc, buffer, repeats), LAMBDA t1 :
  Then(Repeat(this_, "CHUNKS_2x32b", t1, buffer, repeats), LAMBDA t2 :
  Then(Repeat(this_, "CHUNKS_4x32b", t2, buffer, repeats), LAMBDA t4 :
  Then(Repeat(this_, "CHUNKS_8x32b", t4, buffer, repeats), LAMBDA t8 :
       Repeat(this_, "BYTE_BY_BYTE", t8, buffer, repeats)))))

(***************************************************************************)
(* The state machine: an engine is constructed, and its owner calls        *)
(* Consume, Optimize, reset and crc in any order.                          *)
(***************************************************************************)
Init ==
  \E e \in Engines :
    /\ width = e.width
    /\ options = e.options
    /\ crc_ = Crc_Crc_crc_(e.width, e.options)
    /\ chunks_ = e.options.chunks
    /\ fed = << >>
    /\ calls = 0
    /\ last = "Crc"
    /\ discarded = FALSE
    /\ ret = << >>
    /\ rest = 0

\* Consume(data, size): the processing method is chunks_
ConsumeDefault ==
  \E data \in Inputs :
    /\ calls < MaxCalls
    /\ crc_' = Consume(this, crc_, data, chunks_)
    /\ rest' = Rest(chunks_, Len(data))
    /\ fed' = fed \o data
    /\ calls' = calls + 1
    /\ last' = "Consume"
    /\ discarded' = FALSE
    /\ ret' = << >>
    /\ UNCHANGED <<width, options, chunks_>>

\* Consume(data, size, chunks) as it would be if it stored the method named
ConsumeChunks_storing ==
  \E data \in Inputs, chunks \in CrcChunks :
    /\ calls < MaxCalls
    /\ crc_' = Consume(this, crc_, data, chunks)
    /\ rest' = Rest(chunks, Len(data))
    /\ chunks_' = chunks
    /\ fed' = fed \o data
    /\ calls' = calls + 1
    /\ last' = "ConsumeChunks"
    /\ discarded' = FALSE
    /\ ret' = << >>
    /\ UNCHANGED <<width, options>>

\* Consume(data, size, chunks): the caller names the processing method
ConsumeChunks ==
  \E data \in Inputs, chunks \in CrcChunks :
    /\ calls < MaxCalls
    /\ crc_' = Consume(this, crc_, data, chunks)
    /\ rest' = Rest(chunks, Len(data))
    /\ fed' = fed \o data
    /\ calls' = calls + 1
    /\ last' = "ConsumeChunks"
    /\ discarded' = FALSE
    /\ ret' = << >>
    /\ UNCHANGED <<width, options, chunks_>>

\* Optimize(buffer_size, repeats)
Optimize ==
  \E args \in OptimizeArgs :
    \E buffer \in Uninitialized(args.buffer_size) :
      /\ discarded' = (TimingLoops(this, crc_, buffer, args.repeats) # Crc_reset(this))
      /\ crc_' = Crc_reset(this)
      /\ \E best_type \in CrcChunks : chunks_' = best_type
      /\ fed' = << >>
      /\ calls' = 0
      /\ last' = "Optimize"
      /\ ret' = << >>
      /\ rest' = 0
      /\ UNCHANGED <<width, options>>

\* reset()
reset ==
  /\ crc_' = Crc_reset(this)
  /\ fed' = << >>
  /\ calls' = 0
  /\ last' = "reset"
  /\ discarded' = (crc_ # Crc_reset(this))
  /\ ret' = << >>
  /\ rest' = 0
  /\ UNCHANGED <<width, options, chunks_>>

\* crc() as it would be if it stored the finished value in the register
crc_in_place ==
  /\ ret' = <<Crc_crc(this, crc_)>>
  /\ crc_' = Crc_crc(this, crc_)
  /\ last' = "crc"
  /\ discarded' = FALSE
  /\ rest' = 0
  /\ UNCHANGED <<width, options, chunks_, fed, calls>>

\* crc(): a const method, it returns a value and writes no member
crc ==
  /\ ret' = <<Crc_crc(this, crc_)>>
  /\ last' = "crc"
  /\ discarded' = FALSE
  /\ rest' = 0
  /\ UNCHANGED <<width, options, crc_, chunks_, fed, calls>>

Next == ConsumeDefault \/ ConsumeChunks \/ Optimize \/ reset \/ crc

Spec == Init /\ [][Next]_vars

(***************************************************************************)
(* Properties.  digest is what crc() would return in the current state;    *)
(* Fresh(chunks) is the digest of an engine of the same profile that is    *)
(* reset and then consumes the bytes of fed in one Consume call with the   *)
(* given processing method.                                                *)
(***************************************************************************)
digest == Crc_crc(this, crc_)

Fresh(chunks) == Crc_crc(this, Consume(this, Crc_Crc_crc_(width, options), fed, chunks))

Presets ==
  {Engine(16, Crc16), Engine(16, Crc16_CCITT), Engine(32, Crc32),
   Engine(64, Crc64), Engine(64, Crc64_ISO)}

\* C1: after one Consume call on a freshly reset engine, with whichever
\* processing method K1 the call used, the digest equals the digest the
\* same bytes give with every processing method K2, for every width, both
\* settings of reverse_data and inputs of 64 bytes and more.
C1_KernelsAgree ==
  calls = 1 => \A K2 \in CrcChunks : digest = Fresh(K2)

\* C2: after two Consume calls Consume(A, K1); Consume(C, K2) on a freshly
\* reset engine (either part possibly empty), the digest equals the digest
\* of one Consume call on A || C, for every processing method K.
C2_StreamingComposes ==
  calls = 2 => \A K \in CrcChunks : digest = Fresh(K)

\* C3: crc() after "123456789" returns 0xBB3D on the Crc16 preset, 0x29B1
\* on the Crc16_CCITT preset and 0xCBF43926 on the Crc32 preset.
C3_CheckVectors ==
  (last = "crc" /\ fed = Check) =>
    /\ Engine(width, options) = Engine(16, Crc16) => ret = <<Hex(<<187, 61>>)>>
    /\ Engine(width, options) = Engine(16, Crc16_CCITT) => ret = <<Hex(<<41, 177>>)>>
    /\ Engine(width, options) = Engine(32, Crc32) => ret = <<Hex(<<203, 244, 57, 38>>)>>

C3_Witness ==
  last = "crc" /\ fed = Check /\ calls = 1 /\ Engine(width, options) = Engine(32, Crc32)

\* C4 as stated: crc() after "123456789" returns 0x6C40DF5F0B497347 on the
\* Crc64 preset and 0xB90956C775A41001 on the Crc64_ISO preset.
C4_StatedVectors ==
  (last = "crc" /\ fed = Check /\ width = 64) =>
    /\ options = Crc64 => ret = <<Hex(<<108, 64, 223, 95, 11, 73, 115, 71>>)>>
    /\ options = Crc64_ISO => ret = <<Hex(<<185, 9, 86, 199, 117, 164, 16, 1>>)>>

\* C4 amended: crc() after "123456789" returns 0x995DC9BBDF1939FA on the
\* Crc64 preset (polynomial 0x42F0E1EBA9EA3693, initial and xor_output all
\* ones, both reflections) and 0x46A5A9388A5BEFFE on the Crc64_ISO preset
\* (polynomial 0x1B, initial and xor_output zero, both reflections).
C4_CheckVectors64 ==
  (last = "crc" /\ fed = Check /\ width = 64) =>
    /\ options = Crc64 => ret = <<Hex(<<153, 93, 201, 187, 223, 25, 57, 250>>)>>
    /\ options = Crc64_ISO => ret = <<Hex(<<70, 165, 169, 56, 138, 91, 239, 254>>)>>

C4_Witness ==
  last = "crc" /\ fed = Check /\ calls = 1 /\ Engine(width, options) = Engine(64, Crc64_ISO)

\* C5: after Consume(B) with the engine's own processing method chunks_,
\* which Optimize() may have set to any of the five, the digest equals the
\* digest of Consume(B) on a fresh engine of the same profile that was never
\* tuned, whose processing method is the one of its options.
C5_TuneNeutral ==
  (last = "Consume" /\ calls = 1) => digest = Fresh(options.chunks)

\* C6: right after construction, reset() and Optimize(), whatever ran
\* before, the register is the bit reversal of the engine's initial value
\* when reverse_data_ is set and the initial value otherwise.
C6_RegisterAfterReset ==
  last \in {"Crc", "reset", "Optimize"} =>
    crc_ = IF this.reverse_data_ THEN ReverseBits(this.initial_crc_, width)
           ELSE this.initial_crc_

\* Optimize() ran, its timing loops left a register other than the one its
\* reset() then stored, and it chose another processing method.
C6_Witness ==
  last = "Optimize" /\ discarded /\ chunks_ # options.chunks /\ this.reverse_data_

\* C7: crc() with no bytes consumed since construction or reset() returns
\* (reverse_out ? reverse(initial) : initial) XOR xor_output for every
\* combination of the two reflection flags, and initial XOR xor_output on
\* each of the five presets.
C7_EmptyDigest ==
  (last = "crc" /\ fed = << >>) =>
    /\ ret = <<Xor(IF this.reverse_out_ THEN ReverseBits(this.initial_crc_, width)
                   ELSE this.initial_crc_, this.xor_output_)>>
    /\ Engine(width, options) \in Presets =>
         ret = <<Xor(options.initial_crc, options.xor_output)>>

\* an engine with one reflection only returned the digest of no bytes
C7_Witness ==
  last = "crc" /\ fed = << >> /\ this.reverse_data_ # this.reverse_out_
    /\ this.initial_crc_ # ReverseBits(this.initial_crc_, width)

(***************************************************************************)
(* The partner of the engine for C8: the engine of the same width whose    *)
(* options differ in the two reflection flags only, reset and fed `data`   *)
(* in one Consume call.                                                    *)
(***************************************************************************)
Pairable ==
  /\ options.reverse_data = options.reverse_out
  /\ this.xor_output_ = {}
  /\ Engine(width, Mirror(options)) \in Engines

MirrorDigest(data, chunks) ==
  LET o == Mirror(options)
      m == Crc_Crc(width, o)
  IN  Crc_crc(m, Consume(m, Crc_Crc_crc_(width, o), data, chunks))

\* the bytes of data, each with its eight bits in reverse order
ReflectBytes(data) ==
  Stored([k \in 1..Len(data) |-> ByteAt(ReverseBits(Bits8[data[k]], 8), 0)])

\* C8 as stated: two engines that differ only in reverse_data = reverse_out
\* = TRUE against FALSE, with xor_output = 0, return digests that are
\* bit reversals of each other after consuming the same bytes.
C8_StatedCancellation ==
  (last = "Consume" /\ calls = 1 /\ Pairable) =>
    digest = ReverseBits(MirrorDigest(fed, chunks_), width)

\* C8 amended: the two digests are bit reversals of each other when the
\* bytes one engine consumes are, byte by byte, the bit reversals of the
\* bytes the other consumes, both engines using the same processing method.
C8_ReflectCancellation ==
  (last = "Consume" /\ calls = 1 /\ Pairable) =>
    digest = ReverseBits(MirrorDigest(ReflectBytes(fed), chunks_), width)

\* a tuned 64 bit engine consumed an input that turns the word loop
C8_Witness ==
  /\ last = "Consume" /\ calls = 1 /\ Pairable
  /\ width = 64 /\ Len(fed) >= bytes_at_once /\ chunks_ = "CHUNKS_8x32b"

\* C9: no engine exists whose parameters are a truncation of its options:
\* polynomial_, initial_crc_ and xor_output_ are the options' values, a
\* profile with a bit above bit width - 1 having been refused.
C9_NoTruncatedEngine ==
  /\ this.polynomial_ = options.polynomial
  /\ this.initial_crc_ = options.initial_crc
  /\ this.xor_output_ = options.xor_output

\* C10: a call of crc() leaves the register, the processing method and the
\* options (hence the table) as they were, as well as the history of the
\* bytes consumed, so that Consume calls around it act as if it had not
\* run; two consecutive calls return the same value.
C10_CrcIsPure ==
  [][last' = "crc" =>
       /\ crc_' = crc_ /\ chunks_' = chunks_
       /\ width' = width /\ options' = options
       /\ fed' = fed /\ calls' = calls
       /\ ret' = <<digest>>
       /\ (last = "crc" => ret' = ret)]_vars

\* crc() ran between two Consume calls, on a register that differs from
\* the value returned
C10_Witness ==
  last = "crc" /\ calls = 1 /\ fed # << >> /\ ret # <<crc_>>

\* C11: Consume(data, size, K) leaves chunks_ as it was; chunks_ changes in
\* Optimize() only; and Consume(data, size) processes its bytes with the
\* method chunks_ held before the call, whatever overrides ran earlier.
C11_OverrideIsLocal ==
  [][/\ last' = "ConsumeChunks" => chunks_' = chunks_
     /\ chunks_' # chunks_ => last' = "Optimize"
     /\ (last' = "Consume" /\ calls' = calls + 1) =>
          /\ chunks_' = chunks_
          /\ crc_' = Consume(this, crc_, SubSeq(fed', Len(fed) + 1, Len(fed')),
                             chunks_)]_vars

\* a tuned engine consumed bytes with a method named in the call, and the
\* digest shows that the method was not chunks_
C11_Witness ==
  /\ last = "ConsumeChunks" /\ calls = 1
  /\ chunks_ # options.chunks
  /\ digest # Fresh(chunks_)

\* C12: a Consume call with no bytes, with the engine's own processing
\* method or with any of the five named in the call, leaves the register
\* as it was, whatever the register is; the call is always possible.
C12_EmptyIsNoOp ==
  [][(last' \in {"Consume", "ConsumeChunks"} /\ calls' = calls + 1 /\ fed' = fed)
       => crc_' = crc_]_vars

\* two Consume calls ran, one of them with no bytes, the later one with a
\* method named in the call
C12_Witness ==
  last = "ConsumeChunks" /\ calls = 2 /\ fed = Check /\ crc_ # Crc_Crc_crc_(width, options)

\* C13: after one Consume call on a freshly constructed or reset engine
\* with fewer than 64 bytes, among them the ten bytes "1234567890" of main,
\* whichever of the five methods processed them, the register is the one
\* Consume_byte_by_byte leaves on the same bytes.
C13_ShortInputParity ==
  (calls = 1 /\ Len(fed) < bytes_at_once) =>
    crc_ = Consume_byte_by_byte(this, Crc_Crc_crc_(width, options), fed, 0)

\* a preset engine that Optimize() set to a word kernel consumed the ten bytes
C13_Witness ==
  /\ last = "Consume" /\ calls = 1 /\ fed = Ten
  /\ Engine(width, options) \in Presets /\ chunks_ = "CHUNKS_1x32b"

\* C14: on the little-endian host, a Consume call that processes its bytes
\* with a word kernel leaves the register Consume_byte_by_byte leaves on the
\* same bytes from the same register, for widths 16 and 32 with each of the
\* four word kernels, for width 64 with CHUNKS_2x32b, CHUNKS_4x32b and
\* CHUNKS_8x32b, for both settings of reverse_data_, from any register and
\* for inputs of any length.
C14_WordKernelsRefineByteKernel ==
  [][(/\ last' = "Consume" /\ calls' = calls + 1
      /\ chunks_ # "BYTE_BY_BYTE"
      /\ ~(width = 64 /\ chunks_ = "CHUNKS_1x32b")) =>
       crc_' = Consume_byte_by_byte(this, crc_,
                 SubSeq(fed', Len(fed) + 1, Len(fed')), 0)]_vars

\* a 64 bit engine without reflection, set to CHUNKS_2x32b, consumed two
\* buffers that each turn the word loop, the second from the register the
\* first had left
C14_Witness ==
  /\ last = "Consume" /\ calls = 2 /\ Len(fed) = 2 * Len(Long)
  /\ width = 64 /\ ~this.reverse_data_ /\ chunks_ = "CHUNKS_2x32b"

\* C15 as stated: a word kernel whose step reads n words hands
\* len mod (4n * 4) bytes to Consume_byte_by_byte, having folded
\* floor(len / (16n)) blocks of 4n * 4 bytes.
C15_StatedTailRule ==
  (last = "Consume" /\ calls = 1 /\ chunks_ # "BYTE_BY_BYTE") =>
    rest = Len(fed) % (4 * words(chunks_) * 4)

\* C15 amended: every word kernel, whatever the number of words of its
\* step, folds floor(len / 64) groups of 64 bytes and hands the remaining
\* len mod 64 bytes, always fewer than 64, to Consume_byte_by_byte.
C15_TailRule ==
  (last \in {"Consume", "ConsumeChunks"} /\ calls = 1) =>
    \/ rest = Len(fed) % bytes_at_once /\ rest < bytes_at_once
    \/ rest = Len(fed) /\ (last = "Consume" => chunks_ = "BYTE_BY_BYTE")

\* CHUNKS_8x32b folded one group of a buffer and left six bytes
C15_Witness ==
  /\ last = "Consume" /\ calls = 1 /\ chunks_ = "CHUNKS_8x32b"
  /\ fed = Long /\ rest = Len(Long) - bytes_at_once

\* the digest of the same engine on a big-endian host, reset and fed `data`
\* in one Consume call
BigEndianDigest(data, chunks) ==
  LET big == [this EXCEPT !.host = "big"]
  IN  Crc_crc(big, Consume(big, Crc_Crc_crc_(width, options), data, chunks))

\* C16: the digest after one Consume call, computed on the little-endian
\* host with the engine's processing method, is the digest the same engine
\* computes from the same bytes with the same method on a big-endian host.
C16_HostByteOrder ==
  (last = "Consume" /\ calls = 1) => digest = BigEndianDigest(fed, chunks_)

====
